---- MODULE Spec2Model ----
(***************************************************************************)
(* arena2api (src/server.py): the profile/token-pool manager, the          *)
(* round-robin profile selection and the upstream event-stream translator  *)
(* (stream and buffered), as state machines translated from the code.      *)
(*                                                                         *)
(* Time: the clock `now` counts ticks of TickSeconds seconds; time.time()  *)
(* is NowS (seconds) and time.time() * 1000 is NowMs.  The V2 slot's       *)
(* timestamp, which the code keeps in seconds as a float, is kept in       *)
(* milliseconds (both sides of its comparisons multiplied by 1000).        *)
(***************************************************************************)
EXTENDS Integers, Sequences, FiniteSets, TLC

VARIABLES
    now,          \* the clock, in ticks
    stores,       \* StoreManager.stores: the OrderedDict, as the sequence of its values
    robin_index,  \* StoreManager._robin_index
    ret,          \* observation: the last operation and what it returned
    served,       \* observation: per profile id, the token values the pop operations have returned
    selRound,     \* observation: the latest select_best_profile calls with no push, pop or deletion in between
    upstream,     \* the upstream response: its status code and its lines
    sr,           \* a stream_response call on it: position, chunks yielded
    br,           \* a non_stream_response call on it: position, accumulators, result
    handed        \* observation: the pool entries chat requests obtained, until a push re-creates them

storeVars == <<now, stores, robin_index, ret, served, selRound, handed>>
streamVars == <<upstream, sr, br>>
vars == <<now, stores, robin_index, ret, served, selRound, upstream, sr, br, handed>>

----------------------------------------------------------------------------
(* Bounds of the model *)

MaxTime == 9            \* the clock stops here
TickSeconds == 15       \* seconds per tick
PoolStep == 4           \* ticks between the operations on one pool
TOKEN_POOL_MAX == 2     \* env TOKEN_POOL_MAX (server.py:69, default 30)
MaxReceived == 3        \* cap of total_tokens_received per profile
MaxEmpty == 1           \* cap of consecutive_empty per profile

(* Program constants *)

TOKEN_EXPIRY_MS == 110000
PROFILE_TIMEOUT_S == 120
MinTokenLen == 20

None == "<None>"

ProfileIds == {"p1", "p2", "p3"}
TokA == "tok-AAAAAAAAAAAAAAAAAAAA"
TokB == "tok-BBBBBBBBBBBBBBBBBBBB"
TokC == "tok-CCCCCCCCCCCCCCCCCCCC"
TokV2 == "tok-V2-DDDDDDDDDDDDDDDDD"
Tokens == {TokA, TokB, TokC}
ModelNames == {"gpt", "img"}
AuthTokens == {"auth1"}
AllIds == ProfileIds \cup {"default"} \cup {"auto_" \o a : a \in AuthTokens}

NowS == now * TickSeconds
NowMs == NowS * 1000

----------------------------------------------------------------------------
(* Python helpers *)

Range(s) == {s[i] : i \in 1..Len(s)}
SeqsUpTo(S, n) == UNION {[1..k -> S] : k \in 0..n}

InsertAtEnd(s, e) == Append(s, e)
\* list.sort(key=...) is stable: an element goes after the elements whose key
\* is not greater.
InsertByTs(s, e) ==
    LET i == Cardinality({j \in 1..Len(s) : s[j].ts <= e.ts})
    IN  SubSeq(s, 1, i) \o <<e>> \o SubSeq(s, i + 1, Len(s))

RECURSIVE SortByTs(_)
SortByTs(s) ==
    IF s = <<>> THEN <<>>
    ELSE InsertByTs(SortByTs(SubSeq(s, 1, Len(s) - 1)), s[Len(s)])

\* dict as the sequence of its items in insertion order
DictHas(d, k) == \E i \in 1..Len(d) : d[i].name = k
DictGet(d, k) == d[CHOOSE i \in 1..Len(d) : d[i].name = k].id
DictSet(d, k, v) ==
    IF DictHas(d, k)
    THEN [i \in 1..Len(d) |-> IF d[i].name = k THEN [name |-> k, id |-> v] ELSE d[i]]
    ELSE Append(d, [name |-> k, id |-> v])

----------------------------------------------------------------------------
(* ProfileStore *)

NewStore(pid) ==
    [profile_id |-> pid, cookies |-> "", auth_token |-> "", cf_clearance |-> "",
     v3_tokens |-> <<>>, v2_token |-> <<>>, last_push |-> 0,
     text_models |-> <<>>, image_models |-> <<>>, vision_models |-> <<>>,
     total_tokens_served |-> 0, total_tokens_received |-> 0,
     consecutive_empty |-> 0]

Active(s) == s.last_push > 0 /\ NowS - s.last_push < PROFILE_TIMEOUT_S

NotExpired(t) == NowMs - t.ts < TOKEN_EXPIRY_MS

TokenCount(s) == Len(SelectSeq(s.v3_tokens, NotExpired))

HealthScore(s) ==
    IF ~Active(s) THEN 0
    ELSE LET tc == TokenCount(s)
             age == NowS - s.last_push
             score == (IF tc * 15 < 45 THEN tc * 15 ELSE 45)
                      + (IF s.auth_token # "" THEN 20 ELSE 0)
                      + (IF s.cf_clearance # "" THEN 10 ELSE 0)
                      + (IF s.text_models # <<>> THEN 10 ELSE 0)
                      + (IF age < 30 THEN 15 ELSE IF age < 60 THEN 10
                         ELSE IF age < 90 THEN 5 ELSE 0)
         IN  IF score < 100 THEN score ELSE 100

AlreadyHeldNever(v3, tok) == FALSE
AlreadyHeld(v3, tok) == \E i \in 1..Len(v3) : v3[i].token = tok

AppendTokenUncounted(s, t) ==
    IF t.token = "" \/ Len(t.token) < MinTokenLen THEN s
    ELSE IF t.age_ms > TOKEN_EXPIRY_MS THEN s
    ELSE IF AlreadyHeld(s.v3_tokens, t.token) THEN s
    ELSE [s EXCEPT !.v3_tokens = Append(@, [token |-> t.token, ts |-> NowMs - t.age_ms])]

\* one iteration of the loop over data["v3_tokens"]
AppendToken(s, t) ==
    IF t.token = "" \/ Len(t.token) < MinTokenLen THEN s
    ELSE IF t.age_ms > TOKEN_EXPIRY_MS THEN s
    ELSE IF AlreadyHeld(s.v3_tokens, t.token) THEN s
    ELSE [s EXCEPT !.v3_tokens = Append(@, [token |-> t.token, ts |-> NowMs - t.age_ms]),
                   !.total_tokens_received = @ + 1]

RECURSIVE AppendTokens(_, _)
AppendTokens(s, toks) ==
    IF toks = <<>> THEN s
    ELSE AppendTokens(AppendToken(s, Head(toks)), Tail(toks))

\* while len(v3_tokens) > TOKEN_POOL_MAX: v3_tokens.pop(0)
TruncateNewest(v3) ==
    IF Len(v3) > TOKEN_POOL_MAX THEN SubSeq(v3, 1, TOKEN_POOL_MAX) ELSE v3
Truncate(v3) ==
    IF Len(v3) > TOKEN_POOL_MAX
    THEN SubSeq(v3, Len(v3) - TOKEN_POOL_MAX + 1, Len(v3))
    ELSE v3

PushV3(s, data) ==
    IF data.v3_tokens = <<>> THEN s
    ELSE LET a == AppendTokens(s, data.v3_tokens)
         IN  [a EXCEPT !.v3_tokens = Truncate(SortByTs(a.v3_tokens))]

PushV2(s, data) ==
    IF data.v2_token # <<>>
       /\ data.v2_token[1].token # ""
       /\ data.v2_token[1].age_ms < TOKEN_EXPIRY_MS
    THEN [s EXCEPT !.v2_token = <<[token |-> data.v2_token[1].token,
                                   ts |-> NowMs - data.v2_token[1].age_ms]>>]
    ELSE s

RECURSIVE UpdateModels(_, _)
UpdateModels(s, models) ==
    IF models = <<>> THEN s
    ELSE LET m == Head(models)
             s1 == IF "text" \in m.out_caps
                   THEN [s EXCEPT !.text_models = DictSet(@, m.publicName, m.id)] ELSE s
             s2 == IF "image" \in m.out_caps
                   THEN [s1 EXCEPT !.image_models = DictSet(@, m.publicName, m.id)] ELSE s1
             s3 == IF "image" \in m.in_caps
                   THEN [s2 EXCEPT !.vision_models = Append(@, m.publicName)] ELSE s2
         IN  UpdateModels(s3, Tail(models))

PushModels(s, data) ==
    IF data.models = <<>> THEN s
    ELSE UpdateModels([s EXCEPT !.text_models = <<>>, !.image_models = <<>>,
                                !.vision_models = <<>>], data.models)

PushStore(s, data) ==
    LET s0 == [s EXCEPT !.last_push = NowS,
                        !.cookies = IF data.cookies # "" THEN data.cookies ELSE @,
                        !.auth_token = IF data.auth_token # "" THEN data.auth_token ELSE @,
                        !.cf_clearance = IF data.cf_clearance # "" THEN data.cf_clearance ELSE @]
    IN  PushModels(PushV2(PushV3(s0, data), data), data)

PopV3StorePeek(s) ==
    LET live == SelectSeq(s.v3_tokens, NotExpired)
    IN  IF live = <<>>
        THEN [store |-> [s EXCEPT !.v3_tokens = <<>>, !.consecutive_empty = @ + 1],
              token |-> None, ts |-> 0]
        ELSE [store |-> [s EXCEPT !.v3_tokens = live, !.consecutive_empty = 0,
                                  !.total_tokens_served = @ + 1],
              token |-> live[1].token, ts |-> live[1].ts]

\* pop_v3_token: the store after it, and the entry it returned
PopV3Store(s) ==
    LET live == SelectSeq(s.v3_tokens, NotExpired)
    IN  IF live = <<>>
        THEN [store |-> [s EXCEPT !.v3_tokens = <<>>, !.consecutive_empty = @ + 1],
              token |-> None, ts |-> 0]
        ELSE [store |-> [s EXCEPT !.v3_tokens = Tail(live), !.consecutive_empty = 0,
                                  !.total_tokens_served = @ + 1],
              token |-> live[1].token, ts |-> live[1].ts]

PopV2Store(s) ==
    IF s.v2_token = <<>> THEN [store |-> s, token |-> None, ts |-> 0]
    ELSE IF NowMs - s.v2_token[1].ts > TOKEN_EXPIRY_MS
    THEN [store |-> [s EXCEPT !.v2_token = <<>>], token |-> None, ts |-> 0]
    ELSE [store |-> [s EXCEPT !.v2_token = <<>>],
          token |-> s.v2_token[1].token, ts |-> s.v2_token[1].ts]

CleanStoreAll(s) == [s EXCEPT !.v3_tokens = <<>>]
CleanStore(s) == [s EXCEPT !.v3_tokens = SelectSeq(@, NotExpired)]

----------------------------------------------------------------------------
(* StoreManager *)

Registered == {stores[i].profile_id : i \in 1..Len(stores)}
IndexOf(pid) == CHOOSE i \in 1..Len(stores) : stores[i].profile_id = pid
StoreOf(pid) == stores[IndexOf(pid)]

GetOrCreate(pid) == IF pid \in Registered THEN stores ELSE Append(stores, NewStore(pid))

GetActiveProfiles == SelectSeq(stores, Active)

\* candidates.sort(key=lambda s: s.health_score, reverse=True): stable
InsertByScore(c, e) ==
    LET i == Cardinality({j \in 1..Len(c) : HealthScore(c[j]) >= HealthScore(e)})
    IN  SubSeq(c, 1, i) \o <<e>> \o SubSeq(c, i + 1, Len(c))

RECURSIVE SortByScore(_)
SortByScore(c) ==
    IF c = <<>> THEN <<>>
    ELSE InsertByScore(SortByScore(SubSeq(c, 1, Len(c) - 1)), c[Len(c)])

SupportsModel(s, model_name) ==
    DictHas(s.text_models, model_name) \/ DictHas(s.image_models, model_name)

CandidatesUnfiltered(model_name) == SortByScore(GetActiveProfiles)

Candidates(model_name) ==
    LET active == GetActiveProfiles
        filtered == SelectSeq(active, LAMBDA s : SupportsModel(s, model_name))
    IN  SortByScore(IF model_name # "" /\ filtered # <<>> THEN filtered ELSE active)

WithTokens(model_name) == SelectSeq(Candidates(model_name), LAMBDA s : TokenCount(s) > 0)

RobinStuck(idx, n) == idx % n
RobinNext(idx, n) == (idx + 1) % n

Ids(c) == [i \in 1..Len(c) |-> c[i].profile_id]

\* str.lower() and the substring test `a in b`, on the model names in use
Lower(name) == IF name = "GPT" THEN "gpt" ELSE name
Contains(a, b) == a = "" \/ a = b \/ (a = "gpt" /\ b = "gpt-4")

\* dict.update(d), and {**a, **b}
RECURSIVE DictUpdate(_, _)
DictUpdate(a, d) ==
    IF d = <<>> THEN a
    ELSE DictUpdate(DictSet(a, Head(d).name, Head(d).id), Tail(d))

\* StoreManager.get_all_models: the catalogs of the active profiles, merged in
\* registry order
RECURSIVE MergeModels(_, _, _)
MergeModels(ss, text, image) ==
    IF ss = <<>> THEN [text |-> text, image |-> image]
    ELSE IF Active(Head(ss))
    THEN MergeModels(Tail(ss), DictUpdate(text, Head(ss).text_models),
                     DictUpdate(image, Head(ss).image_models))
    ELSE MergeModels(Tail(ss), text, image)

GetAllModels == MergeModels(stores, <<>>, <<>>)

FuzzyMatch(model_name, name) ==
    Contains(Lower(model_name), Lower(name)) \/ Contains(Lower(name), Lower(model_name))

ResolveFuzzyOnly(model_name) ==
    LET all_text == GetAllModels.text
        all_image == GetAllModels.image
        combined == DictUpdate(all_text, all_image)
        hits == SelectSeq(combined, LAMBDA e : FuzzyMatch(model_name, e.name))
    IN  IF hits # <<>>
        THEN [id |-> hits[1].id, model |-> hits[1].name,
              is_image |-> DictHas(all_image, hits[1].name)]
        ELSE [id |-> None, model |-> model_name, is_image |-> FALSE]

\* StoreManager.resolve_model
ResolveModel(model_name) ==
    LET all_text == GetAllModels.text
        all_image == GetAllModels.image
        combined == DictUpdate(all_text, all_image)
        hits == SelectSeq(combined, LAMBDA e : FuzzyMatch(model_name, e.name))
    IN  IF DictHas(all_text, model_name)
        THEN [id |-> DictGet(all_text, model_name), model |-> model_name, is_image |-> FALSE]
        ELSE IF DictHas(all_image, model_name)
        THEN [id |-> DictGet(all_image, model_name), model |-> model_name, is_image |-> TRUE]
        ELSE IF hits # <<>>
        THEN [id |-> hits[1].id, model |-> hits[1].name,
              is_image |-> DictHas(all_image, hits[1].name)]
        ELSE [id |-> None, model |-> model_name, is_image |-> FALSE]

----------------------------------------------------------------------------
(* Operations *)

LastN(s, n) == IF Len(s) > n THEN SubSeq(s, Len(s) - n + 1, Len(s)) ELSE s

MkData(pid, v3, v2, models, auth, cf, cookies) ==
    [profile_id |-> pid, v3_tokens |-> v3, v2_token |-> v2, models |-> models,
     auth_token |-> auth, cf_clearance |-> cf, cookies |-> cookies]

\* md5(auth)[:8], kept injective on the tokens of the model
AutoId(auth) == "auto_" \o auth

PushProfileId(data) ==
    IF data.profile_id # "" THEN data.profile_id
    ELSE IF data.auth_token # "" THEN AutoId(data.auth_token)
    ELSE "default"

\* POST /v1/extension/push
ExtensionPush(data) ==
    LET pid == PushProfileId(data)
        st == GetOrCreate(pid)
        i == CHOOSE j \in 1..Len(st) : st[j].profile_id = pid
        new == PushStore(st[i], data)
        sorted == SortByTs(AppendTokens(st[i], data.v3_tokens).v3_tokens)
        evicted == IF data.v3_tokens = <<>> THEN <<>>
                   ELSE SelectSeq(sorted, LAMBDA e : e \notin Range(new.v3_tokens))
    IN  /\ new.total_tokens_received <= MaxReceived
        /\ stores' = [st EXCEPT ![i] = new]
        /\ ret' = [op |-> "push", profile |-> pid, data |-> data, evicted |-> evicted,
                   v3_count |-> Len(SelectSeq(new.v3_tokens, NotExpired)),
                   need_tokens |-> Len(SelectSeq(new.v3_tokens, NotExpired))
                                   < TOKEN_POOL_MAX \div 2]
        /\ selRound' = <<>>
        /\ handed' = {h \in handed :
                          ~(/\ h.donor = pid
                            /\ \/ h.kind = "v3" /\ \E k \in 1..Len(new.v3_tokens) :
                                                       new.v3_tokens[k].token = h.token
                               \/ h.kind = "v2" /\ new.v2_token # <<>>)}
        /\ UNCHANGED <<now, robin_index, served, upstream, sr, br>>

Served(pid, tok) ==
    IF tok = None THEN served ELSE [served EXCEPT ![pid] = @ \cup {tok}]

\* ProfileStore.pop_v3_token on a registered profile
PopV3(pid) ==
    /\ pid \in Registered
    /\ LET r == PopV3Store(StoreOf(pid))
       IN  /\ r.store.consecutive_empty <= MaxEmpty
           /\ stores' = [stores EXCEPT ![IndexOf(pid)] = r.store]
           /\ ret' = [op |-> "pop_v3", profile |-> pid, token |-> r.token,
                      ts |-> r.ts, at |-> NowMs, again |-> r.token \in served[pid]]
           /\ served' = Served(pid, r.token)
    /\ selRound' = <<>>
    /\ UNCHANGED <<now, robin_index, upstream, sr, br, handed>>

\* ProfileStore.pop_v2_token on a registered profile
PopV2(pid) ==
    /\ pid \in Registered
    /\ LET r == PopV2Store(StoreOf(pid))
       IN  /\ stores' = [stores EXCEPT ![IndexOf(pid)] = r.store]
           /\ ret' = [op |-> "pop_v2", profile |-> pid, token |-> r.token,
                      ts |-> r.ts, at |-> NowMs, again |-> r.token \in served[pid]]
           /\ served' = Served(pid, r.token)
    /\ selRound' = <<>>
    /\ UNCHANGED <<now, robin_index, upstream, sr, br, handed>>

\* StoreManager.clean_all, the body of the periodic cleanup loop
CleanAll ==
    /\ stores' = [i \in 1..Len(stores) |-> CleanStore(stores[i])]
    /\ ret' = [op |-> "clean",
               cleaned |-> \E k \in 1..Len(stores) :
                              Len(CleanStore(stores[k]).v3_tokens) < Len(stores[k].v3_tokens)]
    /\ UNCHANGED <<now, robin_index, served, selRound, upstream, sr, br, handed>>

\* DELETE /admin/profile/{profile_id}
AdminDelete(pid) ==
    /\ pid \in Registered
    /\ stores' = SelectSeq(stores, LAMBDA s : s.profile_id # pid)
    /\ ret' = [op |-> "delete", profile |-> pid]
    /\ selRound' = <<>>
    /\ UNCHANGED <<now, robin_index, served, upstream, sr, br, handed>>

\* a call of StoreManager.resolve_model
Resolve(model_name) ==
    /\ ret' = [op |-> "resolve", name |-> model_name, result |-> ResolveModel(model_name)]
    /\ UNCHANGED <<now, stores, robin_index, served, selRound, upstream, sr, br, handed>>

\* StoreManager.select_best_profile.  The coroutine has no suspension point:
\* `async with self._lock` acquires a free asyncio.Lock without yielding and
\* the lock is never held across an await, so a call is one step.
SelectBestProfile(model_name) ==
    LET candidates == Candidates(model_name)
        with_tokens == WithTokens(model_name)
        idx == RobinNext(robin_index, Len(with_tokens))
        chosen == IF GetActiveProfiles = <<>> THEN None
                  ELSE IF with_tokens # <<>>
                  THEN with_tokens[(idx % Len(with_tokens)) + 1].profile_id
                  ELSE candidates[1].profile_id
    IN  /\ robin_index' = IF with_tokens # <<>> THEN idx ELSE robin_index
        /\ ret' = [op |-> "select", model |-> model_name, profile |-> chosen]
        /\ selRound' = LET call == [list |-> Ids(with_tokens), pick |-> chosen]
                        IN  IF with_tokens = <<>> THEN <<>>
                            ELSE IF selRound # <<>>
                                    /\ Range(selRound[1].list) = Range(call.list)
                            THEN LastN(Append(selRound, call), Len(with_tokens))
                            ELSE <<call>>
        /\ UNCHANGED <<now, stores, served, upstream, sr, br, handed>>

\* time passes: d ticks
Advance(d, until) ==
    /\ now + d <= until
    /\ now' = now + d
    /\ ret' = [op |-> "tick"]
    /\ UNCHANGED <<stores, robin_index, served, selRound, upstream, sr, br, handed>>

\* select_best_profile as chat_completions calls it: the profile returned and
\* the round-robin index it leaves
BestProfile(model_name) ==
    LET candidates == Candidates(model_name)
        with_tokens == WithTokens(model_name)
        idx == RobinNext(robin_index, Len(with_tokens))
    IN  IF GetActiveProfiles = <<>> THEN [profile |-> None, robin |-> robin_index]
        ELSE IF with_tokens # <<>>
        THEN [profile |-> with_tokens[(idx % Len(with_tokens)) + 1].profile_id, robin |-> idx]
        ELSE [profile |-> candidates[1].profile_id, robin |-> robin_index]

OwnPopNothing(st, i) == [stores |-> st, v3 |-> None, v2 |-> None, ts |-> 0]
OwnPopBoth(st, i) ==
    LET r3 == PopV3Store(st[i])
        r2 == PopV2Store(r3.store)
    IN  [stores |-> [st EXCEPT ![i] = r2.store], v3 |-> r3.token, v2 |-> r2.token,
         ts |-> r3.ts]

\* v3_token = selected.pop_v3_token();
\* v2_token = selected.pop_v2_token() if not v3_token else None
OwnPop(st, i) ==
    LET r3 == PopV3Store(st[i])
        r2 == PopV2Store(r3.store)
    IN  IF r3.token # None
        THEN [stores |-> [st EXCEPT ![i] = r3.store], v3 |-> r3.token, v2 |-> None,
              ts |-> r3.ts]
        ELSE [stores |-> [st EXCEPT ![i] = r2.store], v3 |-> None, v2 |-> r2.token,
              ts |-> r2.ts]

\* the loop over manager.get_active_profiles(): the position, in registry
\* order, of the first other active profile whose pop_v3_token() returns a
\* token, 0 when there is none
Lender(st, sel) ==
    LET lenders == {k \in 1..Len(st) : /\ Active(st[k])
                                       /\ st[k].profile_id # sel
                                       /\ PopV3Store(st[k]).token # None}
    IN  IF lenders = {} THEN 0 ELSE CHOOSE k \in lenders : \A j \in lenders : k <= j

\* the loop pops every other active profile up to that one, and stops there
BorrowNothing(st, sel) == [stores |-> st, token |-> None, ts |-> 0, donor |-> None]
BorrowToken(st, sel) ==
    LET d == Lender(st, sel)
        Visited(k) == Active(st[k]) /\ st[k].profile_id # sel /\ (d = 0 \/ k <= d)
    IN  [stores |-> [k \in 1..Len(st) |->
                        IF Visited(k) THEN PopV3Store(st[k]).store ELSE st[k]],
         token |-> IF d = 0 THEN None ELSE PopV3Store(st[d]).token,
         ts |-> IF d = 0 THEN 0 ELSE PopV3Store(st[d]).ts,
         donor |-> IF d = 0 THEN None ELSE st[d].profile_id]

\* a key the dict does not have
Absent == "<absent>"

\* arena_payload: the model, the modality and the challenge-token fields
ArenaPayload(model_id, is_image, v3_token, v2_token) ==
    [modelAId |-> model_id,
     modality |-> IF is_image THEN "image" ELSE "chat",
     recaptchaV2Token |-> IF v2_token # None THEN v2_token ELSE Absent,
     recaptchaV3Token |-> IF v2_token # None THEN None
                          ELSE IF v3_token # None THEN v3_token ELSE Absent]

\* build_cookie_header: the cookies dict is carried as its "k=v; k=v" rendering
BuildCookieHeader(s) == s.cookies

Headers(s) ==
    [cookie |-> BuildCookieHeader(s),
     authorization |-> IF s.auth_token # "" THEN "Bearer " \o s.auth_token ELSE Absent]

\* `not prompt`: build_conversation_prompt(messages) is empty
EmptyPromptNever(body) == FALSE
EmptyPrompt(body) == body.messages = "blank"

\* POST /v1/chat/completions, from the parsed body to the upstream call; no
\* await lies in between that suspends (the lock of select_best_profile is
\* never held across one), so the handler runs as one step
ChatCompletions(body) ==
    \E r \in {ResolveModel(body.model)} :
    \E best \in {BestProfile(r.model)} :
    LET Fail(code) == ret' = [op |-> "chat", body |-> body, error |-> code,
                              before |-> stores]
    IN  IF body.messages = "none"
        THEN /\ Fail(400)
             /\ UNCHANGED <<now, stores, robin_index, served, selRound, upstream, sr, br,
                            handed>>
        ELSE IF GetActiveProfiles = <<>>
        THEN /\ Fail(503)
             /\ UNCHANGED <<now, stores, robin_index, served, selRound, upstream, sr, br,
                            handed>>
        ELSE IF r.id = None
        THEN /\ Fail(404)
             /\ UNCHANGED <<now, stores, robin_index, served, selRound, upstream, sr, br,
                            handed>>
        ELSE IF best.profile = None
        THEN /\ Fail(503)
             /\ UNCHANGED <<now, stores, robin_index, served, selRound, upstream, sr, br,
                            handed>>
        ELSE IF EmptyPrompt(body)
        THEN /\ Fail(400)
             /\ robin_index' = best.robin
             /\ selRound' = <<>>
             /\ UNCHANGED <<now, stores, served, upstream, sr, br, handed>>
        ELSE \E own \in {OwnPop(stores, IndexOf(best.profile))} :
             \E lent \in {IF own.v3 = None /\ own.v2 = None
                          THEN BorrowToken(own.stores, best.profile)
                          ELSE [stores |-> own.stores, token |-> None, ts |-> 0,
                                donor |-> None]} :
             LET v3_token == IF own.v3 # None THEN own.v3 ELSE lent.token
                 v2_token == own.v2
                 source == IF own.v3 # None \/ own.v2 # None THEN best.profile
                           ELSE lent.donor
                 entry == [donor |-> source,
                           kind |-> IF v2_token # None THEN "v2" ELSE "v3",
                           token |-> IF v2_token # None THEN v2_token ELSE v3_token,
                           ts |-> IF source = best.profile THEN own.ts ELSE lent.ts]
                 selected == lent.stores[IndexOf(best.profile)]
             IN  /\ \A k \in 1..Len(lent.stores) :
                       lent.stores[k].consecutive_empty <= MaxEmpty
                 /\ stores' = lent.stores
                 /\ robin_index' = best.robin
                 /\ ret' = [op |-> "chat", body |-> body, error |-> 0, before |-> stores,
                            model |-> r.model, model_id |-> r.id,
                            selected |-> best.profile,
                            v3_token |-> v3_token, v2_token |-> v2_token,
                            source |-> source, ts |-> entry.ts,
                            again |-> source # None /\ entry \in handed,
                            payload |-> ArenaPayload(r.id, r.is_image, v3_token, v2_token),
                            headers |-> Headers(selected)]
                 /\ handed' = IF source = None THEN handed ELSE handed \cup {entry}
                 /\ selRound' = <<>>
                 /\ UNCHANGED <<now, served, upstream, sr, br>>

----------------------------------------------------------------------------
(* The upstream event stream: lines, JSON payloads *)

\* an upstream line is prefix \o rest; line.startswith(p) is prefix = p and
\* line[3:] is rest
Line(prefix, rest) == [prefix |-> prefix, rest |-> rest]

\* not line.strip()
Blank(line) == line.prefix = "" /\ line.rest \in {"", " "}

HasHeartbeatNever(line) == FALSE

\* "heartbeat" in line
HasHeartbeat(line) == line.rest \in {"\"heartbeat\"", "[{\"heartbeat\":1}]"}

\* JSON values: type is str, num, null, obj or list; an object keeps its
\* finishReason ("" when absent) and its usage.total_tokens (0 when absent), a
\* list keeps, per element, whether it is an object and its image ("" when
\* absent)
JVal(type, str, fr, usage, items) ==
    [ok |-> TRUE, type |-> type, str |-> str, finishReason |-> fr, usage |-> usage,
     items |-> items]
JStr(s) == JVal("str", s, "", 0, <<>>)
JObj(fr, usage) == JVal("obj", "", fr, usage, <<>>)
JList(items) == JVal("list", "", "", 0, items)
JNum == JVal("num", "", "", 0, <<>>)
JSONDecodeError == [ok |-> FALSE, type |-> "", str |-> "", finishReason |-> "", usage |-> 0,
                    items |-> <<>>]
Img(url) == [isdict |-> TRUE, image |-> url]
NotDict == [isdict |-> FALSE, image |-> ""]

\* json.loads on the payloads the upstream of the model sends
JsonLoads(rest) ==
    CASE rest = "\"He\"" -> JStr("He")
      [] rest = "\"llo\"" -> JStr("llo")
      [] rest = "\"hmm\"" -> JStr("hmm")
      [] rest = "\"boom\"" -> JStr("boom")
      [] rest = "\"hasArenaError\"" -> JStr("hasArenaError")
      [] rest = "\"heartbeat\"" -> JStr("heartbeat")
      [] rest = "{}" -> JObj("", 0)
      [] rest = "{\"finishReason\":\"length\",\"usage\":{\"total_tokens\":7}}" -> JObj("length", 7)
      [] rest = "[{\"image\":\"u1\"},{\"image\":\"u2\"}]" -> JList(<<Img("u1"), Img("u2")>>)
      [] rest = "[{\"heartbeat\":1}]" -> JList(<<Img("")>>)
      [] rest = "[1]" -> JList(<<NotDict>>)
      [] rest = "5" -> JNum
      [] OTHER -> JSONDecodeError

RECURSIVE Join(_, _)
Join(parts, sep) ==
    IF parts = <<>> THEN ""
    ELSE IF Len(parts) = 1 THEN parts[1]
    ELSE parts[1] \o sep \o Join(Tail(parts), sep)

\* data.get("finishReason") on a parsed payload: only a dict has .get
GetRaises(v) == IF v.type = "obj" THEN "" ELSE "AttributeError: no attribute 'get'"

\* [img.get("image") for img in data if img.get("image")]
Images(v) ==
    IF v.type \in {"num", "null"}
    THEN [raised |-> "TypeError: object is not iterable", images |-> <<>>]
    ELSE IF v.type = "str" /\ v.str # ""
    THEN [raised |-> "AttributeError: no attribute 'get'", images |-> <<>>]
    ELSE IF v.type = "obj" /\ (v.finishReason # "" \/ v.usage # 0)
    THEN [raised |-> "AttributeError: no attribute 'get'", images |-> <<>>]
    ELSE IF \E i \in 1..Len(v.items) : ~v.items[i].isdict
    THEN [raised |-> "AttributeError: no attribute 'get'", images |-> <<>>]
    ELSE [raised |-> "",
          images |-> LET withImage == SelectSeq(v.items, LAMBDA e : e.image # "")
                     IN  [i \in 1..Len(withImage) |-> withImage[i].image]]

ImageMarkdown(images) == [i \in 1..Len(images) |-> "![image](" \o images[i] \o ")"]

\* f"[Error: {json.loads(line[3:])}]", and f"[Error: {line[3:]}]" when that raises
\* (a string prints as itself; the a3: payloads of the model are strings or
\* unparsable text)
A3Text(line) ==
    LET v == JsonLoads(line.rest)
    IN  "[Error: " \o (IF v.ok /\ v.type = "str" THEN v.str ELSE line.rest) \o "]"

----------------------------------------------------------------------------
(* stream_response *)

\* the value json.loads returned, as the text a delta carries
JText(v, rest) ==
    IF v.type = "null" THEN None ELSE IF v.type = "str" THEN v.str ELSE rest

\* what one iteration of the line loop leaves in content, reasoning and finish,
\* or that it ran `continue`, or the exception it raised
Continue ==
    [continue |-> TRUE, raised |-> "", content |-> None, reasoning |-> None, finish |-> None]
Locals(content, reasoning, finish) ==
    [continue |-> FALSE, raised |-> "", content |-> content, reasoning |-> reasoning,
     finish |-> finish]
Raised(e) ==
    [continue |-> FALSE, raised |-> e, content |-> None, reasoning |-> None, finish |-> None]

StreamLine(line) ==
    LET v == JsonLoads(line.rest)
    IN  IF Blank(line) THEN Continue
        ELSE IF line.prefix = "a0:"
        THEN IF ~v.ok THEN Continue
             ELSE IF v.type = "str" /\ v.str = "hasArenaError"
             THEN Locals("[Arena Error]", None, "stop")
             ELSE Locals(JText(v, line.rest), None, None)
        ELSE IF line.prefix = "ag:"
        THEN IF ~v.ok THEN Continue ELSE Locals(None, JText(v, line.rest), None)
        ELSE IF line.prefix = "ad:"
        THEN IF ~v.ok THEN Locals(None, None, "stop")
             ELSE IF GetRaises(v) # "" THEN Raised(GetRaises(v))
             ELSE Locals(None, None, IF v.finishReason # "" THEN v.finishReason ELSE "stop")
        ELSE IF line.prefix = "a2:"
        THEN IF HasHeartbeat(line) THEN Continue
             ELSE IF ~v.ok THEN Continue
             ELSE LET im == Images(v)
                  IN  IF im.raised # "" THEN Raised(im.raised)
                      ELSE Locals(IF im.images # <<>>
                                  THEN Join(ImageMarkdown(im.images), "\n") ELSE None,
                                  None, None)
        ELSE IF line.prefix = "a3:"
        THEN Locals(A3Text(line), None, "stop")
        ELSE Continue

\* the chunks the generator yields, and the "data: [DONE]" marker
ContentChunk(text) == [delta |-> "content", text |-> text, finish_reason |-> None]
ReasoningChunk(text) == [delta |-> "reasoning_content", text |-> text, finish_reason |-> None]
FinishChunk(finish) == [delta |-> "", text |-> "", finish_reason |-> finish]
ErrorChunk(text) == [delta |-> "content", text |-> text, finish_reason |-> "stop"]
Done == [delta |-> "[DONE]", text |-> "", finish_reason |-> None]

YieldsNoDone(l) ==
    (IF l.content # None THEN <<ContentChunk(l.content)>> ELSE <<>>)
    \o (IF l.reasoning # None THEN <<ReasoningChunk(l.reasoning)>> ELSE <<>>)
    \o (IF l.finish # None THEN <<FinishChunk(l.finish)>> ELSE <<>>)

\* the yields at the end of an iteration
Yields(l) ==
    (IF l.content # None THEN <<ContentChunk(l.content)>> ELSE <<>>)
    \o (IF l.reasoning # None THEN <<ReasoningChunk(l.reasoning)>> ELSE <<>>)
    \o (IF l.finish # None THEN <<FinishChunk(l.finish), Done>> ELSE <<>>)

\* the handler of `except Exception as e`
StreamExcept(e) == <<ErrorChunk("[Stream Error: " \o e \o "]"), Done>>

IOError == "ReadError"

StreamOpenedNoCheck(s, up) == [s EXCEPT !.state = "lines"]

\* the status check after the upstream response is opened
StreamOpened(s, up) ==
    IF up.status # 200
    THEN IF up.broken
         THEN [s EXCEPT !.state = "done", !.out = @ \o StreamExcept(IOError)]
         ELSE [s EXCEPT !.state = "done",
                        !.out = @ \o <<ErrorChunk("[Error: Arena API returned "
                                                 \o ToString(up.status) \o "]"),
                                       Done>>]
    ELSE [s EXCEPT !.state = "lines"]

\* one step of `async for line in resp.aiter_lines()`: the end of the lines, a
\* broken read, or one iteration
StreamStep(s, up) ==
    IF s.pos = Len(up.lines)
    THEN IF up.broken
         THEN [s EXCEPT !.state = "done", !.out = @ \o StreamExcept(IOError)]
         ELSE [s EXCEPT !.state = "done"]
    ELSE LET l == StreamLine(up.lines[s.pos + 1])
         IN  IF l.raised # ""
             THEN [s EXCEPT !.state = "done", !.pos = @ + 1,
                            !.out = @ \o StreamExcept(l.raised)]
             ELSE [s EXCEPT !.state = IF l.finish # None THEN "done" ELSE "lines",
                            !.pos = @ + 1, !.out = @ \o Yields(l)]

StreamOpen ==
    /\ sr.state = "open"
    /\ sr' = StreamOpened(sr, upstream)
    /\ UNCHANGED <<now, stores, robin_index, ret, served, selRound, upstream, br, handed>>

StreamRead ==
    /\ sr.state = "lines"
    /\ sr' = StreamStep(sr, upstream)
    /\ UNCHANGED <<now, stores, robin_index, ret, served, selRound, upstream, br, handed>>

----------------------------------------------------------------------------
(* non_stream_response *)

NoResult == [code |-> 0, content |-> "", reasoning_content |-> None, finish_reason |-> None,
             usage |-> 0]

\* raise HTTPException(code, ...)
HTTPException(code) == [NoResult EXCEPT !.code = code]

ResponseNewlines(b) ==
    [code |-> 200,
     content |-> Join(b.content_parts, "\n"),
     reasoning_content |-> IF Join(b.reasoning_parts, "\n") # ""
                           THEN Join(b.reasoning_parts, "\n") ELSE None,
     finish_reason |-> b.finish_reason,
     usage |-> b.usage]

\* the response the function returns
Response(b) ==
    [code |-> 200,
     content |-> Join(b.content_parts, ""),
     reasoning_content |-> IF Join(b.reasoning_parts, "") # ""
                           THEN Join(b.reasoning_parts, "") ELSE None,
     finish_reason |-> b.finish_reason,
     usage |-> b.usage]

\* one iteration of the line loop on the accumulators; raised is the exception
\* that leaves the loop
NonStreamLine(b, line) ==
    LET v == JsonLoads(line.rest)
        ok == [acc |-> b, raised |-> ""]
    IN  IF Blank(line) THEN ok
        ELSE IF line.prefix = "a0:"
        THEN IF v.ok /\ v.type = "str" /\ v.str # "hasArenaError"
             THEN [ok EXCEPT !.acc.content_parts = Append(@, v.str)] ELSE ok
        ELSE IF line.prefix = "ag:"
        THEN IF v.ok /\ v.type = "str"
             THEN [ok EXCEPT !.acc.reasoning_parts = Append(@, v.str)] ELSE ok
        ELSE IF line.prefix = "ad:"
        THEN IF ~v.ok THEN ok
             ELSE IF GetRaises(v) # "" THEN [ok EXCEPT !.raised = GetRaises(v)]
             ELSE [ok EXCEPT !.acc.finish_reason = IF v.finishReason # ""
                                                   THEN v.finishReason ELSE @,
                             !.acc.usage = IF v.usage # 0 THEN v.usage ELSE @]
        ELSE IF line.prefix = "a2:"
        THEN IF HasHeartbeat(line) THEN ok
             ELSE IF ~v.ok THEN ok
             ELSE LET im == Images(v)
                  IN  IF im.raised # "" THEN [ok EXCEPT !.raised = im.raised]
                      ELSE [ok EXCEPT !.acc.content_parts = @ \o ImageMarkdown(im.images)]
        ELSE IF line.prefix = "a3:"
        THEN [ok EXCEPT !.acc.content_parts = Append(@, A3Text(line))]
        ELSE ok

\* the status check after the upstream response is opened
NonStreamOpened(b, up) ==
    IF up.status # 200
    THEN [b EXCEPT !.state = "raised",
                   !.result = HTTPException(IF up.broken THEN 500 ELSE up.status)]
    ELSE [b EXCEPT !.state = "lines"]

\* one step of `async for line in resp.aiter_lines()`, and the return after the
\* last line
NonStreamStep(b, up) ==
    IF b.pos = Len(up.lines)
    THEN IF up.broken
         THEN [b EXCEPT !.state = "raised", !.result = HTTPException(500)]
         ELSE [b EXCEPT !.state = "returned", !.result = Response(b.acc)]
    ELSE LET r == NonStreamLine(b.acc, up.lines[b.pos + 1])
         IN  IF r.raised # ""
             THEN [b EXCEPT !.state = "raised", !.pos = @ + 1,
                            !.result = HTTPException(500)]
             ELSE [b EXCEPT !.pos = @ + 1, !.acc = r.acc]

\* the call is made once the stream call on the same upstream response has ended
NonStreamOpen ==
    /\ br.state = "open"
    /\ sr.state = "done"
    /\ br' = NonStreamOpened(br, upstream)
    /\ UNCHANGED <<now, stores, robin_index, ret, served, selRound, upstream, sr, handed>>

NonStreamRead ==
    /\ br.state = "lines"
    /\ br' = NonStreamStep(br, upstream)
    /\ UNCHANGED <<now, stores, robin_index, ret, served, selRound, upstream, sr, handed>>

----------------------------------------------------------------------------
(* The translators on an upstream response *)

MaxLines == 3           \* lines of an upstream response

UpstreamLines ==
    {Line("a0:", "\"He\""), Line("a0:", "\"llo\""), Line("a0:", "\"hasArenaError\""),
     Line("a0:", "{oops"), Line("ag:", "\"hmm\""),
     Line("ad:", "{}"), Line("ad:", "{\"finishReason\":\"length\",\"usage\":{\"total_tokens\":7}}"),
     Line("ad:", "[1]"), Line("ad:", "{oops"),
     Line("a2:", "\"heartbeat\""), Line("a2:", "[{\"image\":\"u1\"},{\"image\":\"u2\"}]"),
     Line("a2:", "5"), Line("a3:", "\"boom\""), Line("zz:", "junk")}

\* an upstream response: its status, the lines it delivers, and whether the
\* connection breaks after them (the read that follows raises)
Upstreams ==
    [status : {200}, lines : SeqsUpTo(UpstreamLines, MaxLines), broken : BOOLEAN]
    \cup [status : {429, 500}, lines : SeqsUpTo(UpstreamLines, 1), broken : BOOLEAN]

NoUpstream == [status |-> 0, lines |-> <<>>, broken |-> FALSE]
NewStream(state) == [state |-> state, pos |-> 0, out |-> <<>>]
NewNonStream(state) ==
    [state |-> state, pos |-> 0,
     acc |-> [content_parts |-> <<>>, reasoning_parts |-> <<>>, finish_reason |-> "stop",
              usage |-> 0],
     result |-> NoResult]

InitStores ==
    /\ now = 1
    /\ stores = <<>>
    /\ robin_index = 0
    /\ ret = [op |-> "init"]
    /\ served = [p \in AllIds |-> {}]
    /\ selRound = <<>>
    /\ handed = {}

InitStream ==
    /\ InitStores
    /\ upstream \in Upstreams
    /\ sr = NewStream("open")
    /\ br = NewNonStream("open")

NextStream == StreamOpen \/ StreamRead \/ NonStreamOpen \/ NonStreamRead

SpecStream == InitStream /\ [][NextStream]_vars

\* the whole of a call, step by step
RECURSIVE StreamRun(_, _)
StreamRun(s, up) ==
    IF s.state = "done" THEN s
    ELSE IF s.state = "open" THEN StreamRun(StreamOpened(s, up), up)
    ELSE StreamRun(StreamStep(s, up), up)

RECURSIVE NonStreamRun(_, _)
NonStreamRun(b, up) ==
    IF b.state \in {"returned", "raised"} THEN b
    ELSE IF b.state = "open" THEN NonStreamRun(NonStreamOpened(b, up), up)
    ELSE NonStreamRun(NonStreamStep(b, up), up)

----------------------------------------------------------------------------
(* The token pool of a profile: pushes, pops, sweeps and time *)

PoolIds == {"p1"}
Ages == {0, 50000}
Items == [token : Tokens, age_ms : Ages]
NoModels == <<>>

Item(tok, age) == [token |-> tok, age_ms |-> age]
PoolV3 ==
    SeqsUpTo(Items, 1)
    \cup {<<Item(TokA, 0), Item(TokA, 50000)>>, <<Item(TokB, 50000), Item(TokC, 50000)>>}
PoolV2 == SeqsUpTo([token : {TokV2}, age_ms : {50000}], 1)

PoolData ==
    {MkData(pid, v3, <<>>, NoModels, "", "", "") : pid \in PoolIds, v3 \in PoolV3 \ {<<>>}}
    \cup {MkData(pid, <<>>, v2, NoModels, "", "", "") : pid \in PoolIds, v2 \in PoolV2}

Init ==
    /\ InitStores
    /\ upstream = NoUpstream
    /\ sr = NewStream("idle")
    /\ br = NewNonStream("idle")

Next ==
    \/ \E data \in PoolData : ExtensionPush(data)
    \/ \E pid \in PoolIds : PopV3(pid)
    \/ \E pid \in PoolIds : PopV2(pid)
    \/ CleanAll
    \/ Advance(PoolStep, MaxTime)

Spec == Init /\ [][Next]_vars

----------------------------------------------------------------------------
(* Claims about the token pool *)

IsPop == ret.op \in {"pop_v3", "pop_v2"} /\ ret.token # None
TokensOf(v3) == {v3[i].token : i \in 1..Len(v3)}

\* C1: a pop of either kind (pop_v3_token, pop_v2_token) never returns a token
\* whose age at the pop, now - mintedAt, is greater than or equal to the TTL,
\* the age exactly equal to the TTL included.
C1_PopNeverExpired == IsPop => ret.at - ret.ts < TOKEN_EXPIRY_MS

\* C2: over any sequence of pushes, pops and sweeps on a profile, a token value
\* is returned by pop at most once: no pop returns a value an earlier pop of the
\* same profile returned.
C2_ConsumedOnce == IsPop => ~ret.again

\* C3: no two entries of a profile's V3 sequence have the same token value.
C3_NoDuplicates ==
    \A i \in 1..Len(stores) :
        \A j, k \in 1..Len(stores[i].v3_tokens) :
            stores[i].v3_tokens[j].token = stores[i].v3_tokens[k].token => j = k

\* a push has just carried one value twice, a value the pool held from an
\* earlier push (its entry keeps the earlier mint time), and the pool holds it once
C3_Witness ==
    /\ ret.op = "push"
    /\ Len(ret.data.v3_tokens) = 2
    /\ ret.data.v3_tokens[1].token = ret.data.v3_tokens[2].token
    /\ \E e \in Range(StoreOf(ret.profile).v3_tokens) :
           /\ e.token = ret.data.v3_tokens[1].token
           /\ e.ts < NowMs - ret.data.v3_tokens[1].age_ms
           /\ e.ts < NowMs - ret.data.v3_tokens[2].age_ms
    /\ Cardinality(TokensOf(StoreOf(ret.profile).v3_tokens))
           = Len(StoreOf(ret.profile).v3_tokens)

\* C4: after every push the V3 sequence holds at most TOKEN_POOL_MAX entries;
\* entries are removed by a push only on overflow, and no surviving entry is
\* older than an evicted one.
C4_EvictsOldest ==
    /\ \A i \in 1..Len(stores) : Len(stores[i].v3_tokens) <= TOKEN_POOL_MAX
    /\ ret.op = "push" =>
          LET kept == StoreOf(ret.profile).v3_tokens
          IN  /\ ret.evicted # <<>> => Len(kept) = TOKEN_POOL_MAX
              /\ \A e \in Range(ret.evicted) : \A k \in Range(kept) : e.ts <= k.ts

\* a push has overflowed a full pool and evicted an entry strictly older than
\* a surviving one
C4_Witness ==
    /\ ret.op = "push"
    /\ \E e \in Range(ret.evicted) :
           \E k \in Range(StoreOf(ret.profile).v3_tokens) : e.ts < k.ts

\* C10: push is idempotent: in every reachable profile state, applying a push
\* payload twice in a row with no time elapsing leaves the V3 sequence, the V2
\* slot, tokensReceived and the catalog as they are after applying it once.
C10_PushIdempotent ==
    \A i \in 1..Len(stores) : \A data \in PoolData :
        LET once == PushStore(stores[i], data)
            twice == PushStore(once, data)
        IN  /\ twice.v3_tokens = once.v3_tokens
            /\ twice.v2_token = once.v2_token
            /\ twice.total_tokens_received = once.total_tokens_received
            /\ twice.text_models = once.text_models
            /\ twice.image_models = once.image_models
            /\ twice.vision_models = once.vision_models

----------------------------------------------------------------------------
(* Selection among several profiles *)

SelMaxTime == 5         \* the clock of the selection runs stops here
SelItems == {Item(TokA, 50000)}
SelData ==
    {MkData(pid, <<it>>, <<>>, NoModels, "", "", "") : pid \in ProfileIds, it \in SelItems}

NextSelect ==
    \/ \E data \in SelData : data.profile_id \notin Registered /\ ExtensionPush(data)
    \/ \E pid \in ProfileIds :
          pid \in Registered /\ TokenCount(StoreOf(pid)) > 0 /\ PopV3(pid)
    \/ \E model_name \in {""} : SelectBestProfile(model_name)
    \/ Advance(1, SelMaxTime)

SpecSelect == Init /\ [][NextSelect]_vars

Picks == [i \in 1..Len(selRound) |-> selRound[i].pick]
Distinct(P) == \A i, j \in 1..Len(P) : P[i] = P[j] => i = j
VisitsEachOnce(L, P) ==
    /\ Range(P) \subseteq Range(L)
    /\ Distinct(P)
    /\ Len(P) = Len(L) => Range(P) = Range(L)

----------------------------------------------------------------------------
(* Catalogs: pushes that carry model lists, model resolution and selection
   by model name *)

CatalogIds == {"p1", "p2"}

Model(name, id, out_caps, in_caps) ==
    [publicName |-> name, id |-> id, out_caps |-> out_caps, in_caps |-> in_caps]

\* the `models` lists the extension pushes
ModelLists ==
    {<<>>,
     <<Model("gpt", "m1", {"text"}, {})>>,
     <<Model("img", "m3", {"image"}, {})>>,
     <<Model("gpt-4", "m2", {"text"}, {"image"}), Model("gpt", "m4", {"text"}, {})>>,
     <<Model("gpt", "m1", {"text"}, {}), Model("gpt", "m5", {"text", "image"}, {"image"})>>}

\* a push body: models_given tells a `models` key holding a list (an empty one
\* included) from a body without the key
CatalogBody(pid, v3, models, given) ==
    [profile_id |-> pid, v3_tokens |-> v3, v2_token |-> <<>>, models |-> models,
     models_given |-> given, auth_token |-> "", cf_clearance |-> "", cookies |-> ""]

CatalogData ==
    {CatalogBody("p1", <<>>, models, TRUE) : models \in ModelLists}
    \cup {CatalogBody("p2", <<>>, models, TRUE) :
              models \in {ml \in ModelLists : Len(ml) = 0 \/ ml[1].publicName # "gpt"}}
    \cup {CatalogBody("p2", <<Item(TokA, 0)>>, <<>>, FALSE)}

RequestedNames == {"", "gpt", "gpt-4", "GPT", "img", "zzz"}

NextCatalog ==
    \/ \E data \in CatalogData : ExtensionPush(data)
    \/ \E model_name \in RequestedNames : Resolve(model_name)
    \/ \E model_name \in RequestedNames : SelectBestProfile(model_name)
    \/ Advance(PoolStep, MaxTime)

SpecCatalog == Init /\ [][NextCatalog]_vars

----------------------------------------------------------------------------
(* Health score: the property read on the profiles a push has left behind *)

\* the V3 pools of a profile pushed at tick 1: up to three tokens minted then
\* (the pool holds up to 30 by default; health_score does not read the limit)
HealthPools ==
    LET Minted(tok) == [token |-> tok, ts |-> TickSeconds * 1000]
    IN  {<<>>, <<Minted(TokA)>>, <<Minted(TokA), Minted(TokB)>>,
         <<Minted(TokA), Minted(TokB), Minted(TokC)>>}
HealthCatalogs ==
    {[text |-> <<>>, image |-> <<>>],
     [text |-> <<[name |-> "gpt", id |-> "m1"]>>, image |-> <<>>],
     [text |-> <<>>, image |-> <<[name |-> "img", id |-> "m3"]>>],
     [text |-> <<[name |-> "gpt", id |-> "m1"]>>, image |-> <<[name |-> "img", id |-> "m3"]>>]}
HealthStores ==
    {NewStore("p1")}
    \cup {[NewStore("p1") EXCEPT !.last_push = TickSeconds, !.v3_tokens = v3,
                                 !.total_tokens_received = Len(v3),
                                 !.auth_token = auth, !.cf_clearance = cf,
                                 !.text_models = cat.text, !.image_models = cat.image] :
             v3 \in HealthPools, auth \in {"", "auth1"}, cf \in {"", "cf1"},
             cat \in HealthCatalogs}

\* ProfileStore.health_score read on a registered profile
Health(pid) ==
    /\ pid \in Registered
    /\ ret' = [op |-> "health", profile |-> pid, score |-> HealthScore(StoreOf(pid))]
    /\ UNCHANGED <<now, stores, robin_index, served, selRound, upstream, sr, br, handed>>

InitHealth ==
    /\ now = 1
    /\ stores \in {<<s>> : s \in HealthStores}
    /\ robin_index = 0
    /\ ret = [op |-> "init"]
    /\ served = [p \in AllIds |-> {}]
    /\ selRound = <<>>
    /\ handed = {}
    /\ upstream = NoUpstream
    /\ sr = NewStream("idle")
    /\ br = NewNonStream("idle")

NextHealth ==
    \/ \E pid \in PoolIds : Health(pid)
    \/ Advance(1, MaxTime)

SpecHealth == InitHealth /\ [][NextHealth]_vars

----------------------------------------------------------------------------
(* Chat requests among pushes and sweeps: p1 has the model, p2 and p3 only tokens *)

ChatBudget == 3         \* tokens received over all profiles

ChatModels == <<Model("gpt", "m1", {"text"}, {})>>
ChatData ==
    {MkData("p1", <<>>, <<>>, ChatModels, "auth-p1", "", "sid=p1"),
     MkData("p1", <<>>, <<Item(TokV2, 0)>>, ChatModels, "auth-p1", "", "sid=p1"),
     MkData("p1", <<Item(TokA, 0)>>, <<>>, ChatModels, "auth-p1", "", "sid=p1"),
     MkData("p2", <<Item(TokB, 0)>>, <<>>, NoModels, "", "", "sid=p2"),
     MkData("p3", <<Item(TokB, 0), Item(TokC, 50000)>>, <<>>, NoModels, "auth-p3", "",
            "sid=p3")}

\* the parsed body: model, and messages absent, of empty content, or with text
Body(model, messages) == [model |-> model, messages |-> messages]
Bodies == {Body("gpt", "none"), Body("gpt", "blank"), Body("gpt", "text"),
           Body("zzz", "text")}

RECURSIVE Received(_)
Received(st) == IF st = <<>> THEN 0 ELSE Head(st).total_tokens_received + Received(Tail(st))

NextChat ==
    \/ \E data \in ChatData :
          Received(stores) + Len(data.v3_tokens) <= ChatBudget /\ ExtensionPush(data)
    \/ \E body \in Bodies : ChatCompletions(body)
    \/ CleanAll
    \/ Advance(PoolStep, MaxTime)

SpecChat == Init /\ [][NextChat]_vars

----------------------------------------------------------------------------
(* Pushes of one token: empty, short, at and past the expiry age *)

PushItems == [token : {"", "short", TokA, TokB},
              age_ms : {0, TOKEN_EXPIRY_MS, TOKEN_EXPIRY_MS + 1}]
PushOneData == {MkData("p1", <<it>>, <<>>, NoModels, "", "", "") : it \in PushItems}

NextPush ==
    \/ \E data \in PushOneData : ExtensionPush(data)
    \/ \E pid \in PoolIds : PopV3(pid)
    \/ Advance(PoolStep, MaxTime)

SpecPush == Init /\ [][NextPush]_vars

----------------------------------------------------------------------------
(* Chat requests when two profiles map one model name to different ids *)

RouteData ==
    {MkData("p1", v3, <<>>, <<Model("gpt", "m1", {"text"}, {})>>, "", "", "") :
        v3 \in {<<>>, <<Item(TokA, 0)>>}}
    \cup {MkData("p2", v3, <<>>, <<Model("gpt", "m2", {"text"}, {})>>, "", "", "") :
             v3 \in {<<>>, <<Item(TokB, 0)>>}}

NextRoute ==
    \/ \E data \in RouteData : ExtensionPush(data)
    \/ \E body \in {Body("gpt", "text")} : ChatCompletions(body)
    \/ Advance(PoolStep, MaxTime)

SpecRoute == Init /\ [][NextRoute]_vars

-----------------------------------------------------------------------------
(* Endless selection by model name while the candidate list grows and shrinks *)

\* p1 carries an auth token and so scores highest; p3's catalog is replaced by
\* every push, so p3 enters and leaves the candidates for "gpt"
FairData ==
    {MkData("p1", <<Item(TokA, 0)>>, <<>>, <<Model("gpt", "m1", {"text"}, {})>>,
            "auth1", "", ""),
     MkData("p2", <<Item(TokB, 0)>>, <<>>, <<Model("gpt", "m1", {"text"}, {})>>,
            "", "", ""),
     MkData("p3", <<Item(TokC, 0)>>, <<>>, <<Model("gpt", "m1", {"text"}, {})>>,
            "", "", ""),
     MkData("p3", <<>>, <<>>, <<Model("img", "m3", {"image"}, {})>>, "", "", "")}

SelectGpt == SelectBestProfile("gpt")

NextFair ==
    \/ \E data \in FairData : ExtensionPush(data)
    \/ SelectGpt

\* the server never halts: it keeps handling the calls that arrive
SpecFair == Init /\ [][NextFair]_vars /\ WF_vars(NextFair)

\* profile pid is active, lists the model "gpt" and holds a valid token
Ready(pid) ==
    /\ pid \in Registered
    /\ Active(StoreOf(pid))
    /\ SupportsModel(StoreOf(pid), "gpt")
    /\ TokenCount(StoreOf(pid)) > 0

\* C21: in every infinite run in which select_best_profile is called infinitely
\* often for a model and profile p1 stays active, stays a candidate for that
\* model and always holds a valid token, p1 is returned again and again, also
\* when the number of other token-bearing candidates changes between the calls.
C21_NoStarvation ==
    (<>[]Ready("p1") /\ []<>(ret.op = "select"))
        => []<>(ret.op = "select" /\ ret.profile = "p1")

----------------------------------------------------------------------------
(* Claims about catalogs, resolution and selection by model name *)

HasModel(s, m) ==
    \/ \E i \in 1..Len(s.text_models) : s.text_models[i].name = m
    \/ \E i \in 1..Len(s.image_models) : s.image_models[i].name = m

\* C12: select_best_profile returns no profile if and only if no profile is
\* active; otherwise the profile it returns is active at the selection, and
\* when a non-empty model name is given that the text or image catalog of some
\* active profile contains, the returned profile's catalog contains it, also
\* when only profiles that lack the model hold tokens.
C12_SelectActiveWithModel ==
    ret.op = "select" =>
        /\ (ret.profile = None) <=> (\A i \in 1..Len(stores) : ~Active(stores[i]))
        /\ ret.profile # None =>
              /\ ret.profile \in Registered
              /\ Active(StoreOf(ret.profile))
              /\ (/\ ret.model # ""
                  /\ \E i \in 1..Len(stores) :
                        Active(stores[i]) /\ HasModel(stores[i], ret.model))
                 => HasModel(StoreOf(ret.profile), ret.model)

\* a selection by model name has returned a profile without tokens that has the
\* model, while the only active profile holding tokens lacks it
C12_Witness ==
    /\ ret.op = "select"
    /\ ret.model = "img"
    /\ ret.profile # None
    /\ HasModel(StoreOf(ret.profile), "img")
    /\ TokenCount(StoreOf(ret.profile)) = 0
    /\ \E i \in 1..Len(stores) :
          /\ Active(stores[i])
          /\ TokenCount(stores[i]) > 0
          /\ ~HasModel(stores[i], "img")

\* the id the last active profile, in registry order, whose catalog of the
\* kind has the name maps it to
Holders(kind, name) ==
    {i \in 1..Len(stores) :
        Active(stores[i]) /\ \E k \in 1..Len(stores[i][kind]) : stores[i][kind][k].name = name}
LastHolderId(kind, name) ==
    LET m == CHOOSE i \in Holders(kind, name) : \A j \in Holders(kind, name) : j <= i
        k == CHOOSE k \in 1..Len(stores[m][kind]) : stores[m][kind][k].name = name
    IN  stores[m][kind][k].id
\* C16: resolve_model gives exact matches precedence: when the requested name
\* is a key of the merged text or image catalog of the active profiles, the
\* returned name is the requested name and the returned id is the id mapped to
\* it, whatever other catalog names contain it or are contained in it; a fuzzy
\* match is returned only when there is no exact one, and no id is returned
\* when neither matches.
C16_ExactBeforeFuzzy ==
    ret.op = "resolve" =>
        LET name == ret.name
            inText == Holders("text_models", name) # {}
            inImage == Holders("image_models", name) # {}
            names == {n \in {"gpt", "gpt-4", "img"} :
                         Holders("text_models", n) # {} \/ Holders("image_models", n) # {}}
        IN  /\ inText => ret.result = [id |-> LastHolderId("text_models", name),
                                       model |-> name, is_image |-> FALSE]
            /\ (~inText /\ inImage) =>
                   ret.result = [id |-> LastHolderId("image_models", name),
                                 model |-> name, is_image |-> TRUE]
            /\ (~inText /\ ~inImage) =>
                   IF \E n \in names : FuzzyMatch(name, n)
                   THEN /\ ret.result.id # None
                        /\ ret.result.model \in names
                        /\ FuzzyMatch(name, ret.result.model)
                   ELSE ret.result = [id |-> None, model |-> name, is_image |-> FALSE]

\* "gpt" has been resolved to itself while the merged catalog lists "gpt-4",
\* which contains it, first
C16_Witness ==
    /\ ret.op = "resolve"
    /\ ret.name = "gpt"
    /\ ret.result.model = "gpt"
    /\ ret.result.id # None
    /\ GetAllModels.text # <<>>
    /\ GetAllModels.text[1].name = "gpt-4"

\* the mapping a `models` list stands for: per name, the id of the last model
\* of the list with the output capability
DerivedMap(ms, cap) ==
    {[name |-> ms[i].publicName, id |-> ms[i].id] :
        i \in {i \in 1..Len(ms) :
                  /\ cap \in ms[i].out_caps
                  /\ \A j \in (i + 1)..Len(ms) :
                        ~(ms[j].publicName = ms[i].publicName /\ cap \in ms[j].out_caps)}}

\* C17: the catalog of a profile is replaced, not merged, on every push: after
\* a push that carries a `models` list, an empty list included, the profile's
\* text and image mappings and its vision set hold exactly the entries derived
\* from that list.
C17_CatalogReplaced ==
    (ret.op = "push" /\ ret.data.models_given) =>
        LET s == StoreOf(ret.profile)
            ms == ret.data.models
        IN  /\ Range(s.text_models) = DerivedMap(ms, "text")
            /\ Range(s.image_models) = DerivedMap(ms, "image")
            /\ Range(s.vision_models)
                   = {ms[i].publicName : i \in {j \in 1..Len(ms) : "image" \in ms[j].in_caps}}

----------------------------------------------------------------------------
(* Claims about the translators *)

Texts == {"He", "llo"}
TextLine(s) == Line("a0:", "\"" \o s \o "\"")
IsTextLine(line) == \E s \in Texts : line = TextLine(s)
TextOf(line) == CHOOSE s \in Texts : line = TextLine(s)

\* the finishReason a well-formed `ad:` line stands for, None for other lines
AdFinish(line) ==
    IF line = Line("ad:", "{}") THEN "stop"
    ELSE IF line = Line("ad:", "{\"finishReason\":\"length\",\"usage\":{\"total_tokens\":7}}")
    THEN "length"
    ELSE None

DeltaText(out, delta) ==
    LET c == SelectSeq(out, LAMBDA x : x.delta = delta)
    IN  Join([i \in 1..Len(c) |-> c[i].text], "")

Terminal(out) == SelectSeq(out, LAMBDA x : x.finish_reason # None)

\* C6: in stream mode, for every upstream outcome (a non-200 status, any finite
\* sequence of lines, one that ends without an ad:, a3: or error-sentinel line
\* included, or an I/O failure), the output ends with a chunk carrying a non-null
\* finish_reason followed by exactly one [DONE] marker, with nothing after it.
C6_StreamAlwaysTerminated ==
    sr.state = "done" =>
        /\ Len(sr.out) >= 2
        /\ sr.out[Len(sr.out)] = Done
        /\ sr.out[Len(sr.out) - 1].finish_reason # None
        /\ Cardinality({i \in 1..Len(sr.out) : sr.out[i] = Done}) = 1

\* C7: in stream mode, for n valid a0: text lines followed by a well-formed ad:
\* line and then any further lines, the output is the n content deltas carrying
\* the n texts in upstream order, then one terminal chunk whose finish_reason
\* is the ad: line's finishReason ("stop" when absent), then [DONE]; the lines
\* after the ad: line are never read.
C7_TextsThenFinish ==
    \A n \in 0..Len(upstream.lines) :
        (/\ upstream.status = 200
         /\ n < Len(upstream.lines)
         /\ \A i \in 1..n : IsTextLine(upstream.lines[i])
         /\ AdFinish(upstream.lines[n + 1]) # None)
        => /\ sr.pos <= n + 1
           /\ sr.state = "done" =>
                 /\ sr.pos = n + 1
                 /\ Len(sr.out) = n + 2
                 /\ \A i \in 1..n : sr.out[i] = ContentChunk(TextOf(upstream.lines[i]))
                 /\ sr.out[n + 1] = FinishChunk(AdFinish(upstream.lines[n + 1]))
                 /\ sr.out[n + 2] = Done

\* the stream call has ended on two different texts followed by an ad: line
\* that names a finishReason
C7_Witness ==
    /\ sr.state = "done"
    /\ upstream.status = 200
    /\ upstream.lines = <<TextLine("He"), TextLine("llo"),
                          Line("ad:", "{\"finishReason\":\"length\",\"usage\":{\"total_tokens\":7}}")>>
    /\ sr.out = <<ContentChunk("He"), ContentChunk("llo"), FinishChunk("length"), Done>>

\* C8: for every sequence of upstream lines with status 200, the buffered
\* response's content is the in-order concatenation of the content deltas the
\* stream call emits for the same lines, its reasoning_content the concatenation
\* of the streamed reasoning deltas, and its finish_reason the finish_reason of
\* the streamed terminal chunk.
C8_BufferedEqualsStream ==
    (/\ upstream.status = 200
     /\ ~upstream.broken
     /\ sr.state = "done"
     /\ br.state = "returned")
    => /\ br.result.content = DeltaText(sr.out, "content")
       /\ (IF br.result.reasoning_content = None THEN "" ELSE br.result.reasoning_content)
              = DeltaText(sr.out, "reasoning_content")
       /\ Terminal(sr.out) # <<>> =>
              br.result.finish_reason = Terminal(sr.out)[1].finish_reason

\* a line with a recognized prefix whose remainder is not the JSON its tag
\* expects: unparsable, or of the wrong shape
Corrupt(line) ==
    LET v == JsonLoads(line.rest)
    IN  /\ ~HasHeartbeat(line)
        /\ \/ line.prefix \in {"a0:", "ag:"} /\ (~v.ok \/ v.type # "str")
           \/ line.prefix = "ad:" /\ (~v.ok \/ v.type # "obj")
           \/ line.prefix = "a2:"
                 /\ (~v.ok \/ v.type # "list" \/ \E i \in 1..Len(v.items) : ~v.items[i].isdict)

WithoutCorrupt(up) == [up EXCEPT !.lines = SelectSeq(@, LAMBDA l : ~Corrupt(l))]

\* C9: a corrupt line never aborts translation: in both modes it is skipped
\* without an error chunk or a raised error, and the call's result is the
\* result it has on the same upstream lines with the corrupt lines absent.
C9_CorruptLinesSkipped ==
    /\ sr.state = "done" =>
          sr.out = StreamRun(NewStream("open"), WithoutCorrupt(upstream)).out
    /\ br.state \in {"returned", "raised"} =>
          br.result = NonStreamRun(NewNonStream("open"), WithoutCorrupt(upstream)).result

\* C18: a non-200 upstream status short-circuits before any line is parsed:
\* the stream call emits exactly one error chunk, with finish_reason set,
\* followed by [DONE] and nothing else; the buffered call raises an error
\* carrying the upstream status and returns no response; neither call reads an
\* upstream line.
C18_Non200ShortCircuits ==
    (upstream.status # 200 /\ ~upstream.broken /\ sr.state # "idle")
    => /\ sr.pos = 0
       /\ sr.state # "lines"
       /\ sr.state = "done" =>
             /\ Len(sr.out) = 2
             /\ sr.out[1].delta = "content"
             /\ sr.out[1].text = "[Error: Arena API returned " \o ToString(upstream.status) \o "]"
             /\ sr.out[1].finish_reason # None
             /\ sr.out[2] = Done
       /\ br.pos = 0
       /\ br.state \in {"open", "raised"}
       /\ br.acc = NewNonStream("open").acc
       /\ br.state = "raised" =>
             br.result = [NoResult EXCEPT !.code = upstream.status]

\* both calls have ended on a 429 response that carries a line
C18_Witness ==
    /\ upstream.status = 429
    /\ ~upstream.broken
    /\ upstream.lines = <<TextLine("He")>>
    /\ sr.state = "done"
    /\ br.state = "raised"

IsHeartbeat(line) == line.prefix = "a2:" /\ line.rest \in {"\"heartbeat\"", "[{\"heartbeat\":1}]"}
WithoutHeartbeat(up) == [up EXCEPT !.lines = SelectSeq(@, LAMBDA l : ~IsHeartbeat(l))]

\* C19: an a2: line containing "heartbeat" produces no output in either mode:
\* the stream call emits no chunk for it and does not terminate on it, the
\* buffered call adds nothing to content or reasoning, and the result of each
\* call is the result it has on the same lines with the heartbeat lines absent.
C19_HeartbeatIgnored ==
    /\ (sr.state = "lines" /\ sr.pos > 0 /\ IsHeartbeat(upstream.lines[sr.pos])) =>
          sr.out = StreamRun(NewStream("open"),
                             [upstream EXCEPT !.lines = SubSeq(@, 1, sr.pos - 1),
                                              !.broken = FALSE]).out
    /\ (sr.state = "done" /\ sr.pos > 0 /\ IsHeartbeat(upstream.lines[sr.pos])) =>
          sr.pos = Len(upstream.lines)
    /\ sr.state = "done" =>
          sr.out = StreamRun(NewStream("open"), WithoutHeartbeat(upstream)).out
    /\ br.state \in {"returned", "raised"} =>
          br.result = NonStreamRun(NewNonStream("open"), WithoutHeartbeat(upstream)).result

\* both calls have ended on a heartbeat line between a text and an ad: line
C19_Witness ==
    /\ upstream = [status |-> 200, broken |-> FALSE,
                   lines |-> <<TextLine("He"), Line("a2:", "\"heartbeat\""), Line("ad:", "{}")>>]
    /\ sr.state = "done"
    /\ sr.out = <<ContentChunk("He"), FinishChunk("stop"), Done>>
    /\ br.state = "returned"
    /\ br.result.content = "He"

\* C20: in buffered mode, for a0: text lines followed by a closing ad: line
\* without a finishReason, the response's content is the concatenation of the
\* texts in upstream order, without separators, and its finish_reason is "stop".
C20_BufferedConcatenates ==
    LET n == Len(upstream.lines) - 1
    IN  (/\ upstream.status = 200
         /\ ~upstream.broken
         /\ n >= 0
         /\ \A i \in 1..n : IsTextLine(upstream.lines[i])
         /\ upstream.lines[n + 1] = Line("ad:", "{}"))
        => /\ br.state # "raised"
           /\ br.state = "returned" =>
                 /\ br.result.code = 200
                 /\ br.result.content = Join([i \in 1..n |-> TextOf(upstream.lines[i])], "")
                 /\ br.result.finish_reason = "stop"

\* the buffered call has returned on two different texts and a closing ad: line
C20_Witness ==
    /\ upstream = [status |-> 200, broken |-> FALSE,
                   lines |-> <<TextLine("llo"), TextLine("He"), Line("ad:", "{}")>>]
    /\ br.state = "returned"
    /\ br.result.content = "lloHe"

----------------------------------------------------------------------------
(* Claims about the health score *)

\* C15: the health score is always within 0..100; it is 0 for every inactive
\* profile (never pushed, or last push at least PROFILE_TIMEOUT_S ago) whatever
\* its tokens and credentials; and it is exactly 100 for every profile that
\* has at least 3 valid tokens, an auth token, a clearance token, a non-empty
\* catalog (text or image models) and a last push less than 30 seconds old.
C15_HealthScore ==
    ret.op = "health" =>
        LET s == StoreOf(ret.profile)
        IN  /\ ret.score >= 0 /\ ret.score <= 100
            /\ (s.last_push = 0 \/ NowS - s.last_push >= PROFILE_TIMEOUT_S) => ret.score = 0
            /\ (/\ TokenCount(s) >= 3
                /\ s.auth_token # ""
                /\ s.cf_clearance # ""
                /\ (s.text_models # <<>> \/ s.image_models # <<>>)
                /\ s.last_push > 0
                /\ NowS - s.last_push < 30)
               => ret.score = 100

----------------------------------------------------------------------------
(* Claims about chat requests *)

ChatSent == ret.op = "chat" /\ ret.error = 0
Valid(v3) == Range(SelectSeq(v3, NotExpired))
HoldsValidV2(s) == s.v2_token # <<>> /\ NowMs - s.v2_token[1].ts <= TOKEN_EXPIRY_MS
Carries(field) == field \notin {Absent, None}
SelectedBefore == CHOOSE k \in 1..Len(ret.before) : ret.before[k].profile_id = ret.selected
InPool(h) ==
    /\ h.donor \in Registered
    /\ \/ h.kind = "v3" /\ \E k \in 1..Len(StoreOf(h.donor).v3_tokens) :
                              StoreOf(h.donor).v3_tokens[k].token = h.token
       \/ h.kind = "v2" /\ StoreOf(h.donor).v2_token # <<>>

\* C11: whatever the interleaving of chat requests, pushes and the cleanup, an
\* entry of a profile's token pool is handed to at most one request: no request
\* obtains, directly or by borrowing, an entry an earlier request obtained, and
\* an entry a request has popped is in the pool no more in any later state,
\* until a push creates an entry of that token value anew.
C11_EntryHandedOnce ==
    /\ (ChatSent /\ ret.source # None) => ~ret.again
    /\ \A h \in handed : ~InPool(h)

\* a request has borrowed from a pool another request has popped from too, with
\* a sweep or a push in between
C11_Witness ==
    /\ ChatSent
    /\ ret.source # None
    /\ ret.source # ret.selected
    /\ \E h \in handed : h.donor = ret.source /\ h.token # ret.v3_token

\* C13: in the outbound payload at most one of the two challenge-token fields
\* carries a token value, and V2 takes precedence over V3: whenever the
\* selected profile holds both a valid V2 token and a valid V3 token at request
\* time, the payload carries the V2 token; when no token is available anywhere
\* neither field is present.
C13_V2Precedence ==
    ChatSent =>
        LET s == ret.before[SelectedBefore]
            p == ret.payload
        IN  /\ ~(Carries(p.recaptchaV2Token) /\ Carries(p.recaptchaV3Token))
            /\ (TokenCount(s) > 0 /\ HoldsValidV2(s))
                   => p.recaptchaV2Token = s.v2_token[1].token
            /\ (\A k \in 1..Len(ret.before) :
                    TokenCount(ret.before[k]) = 0 /\ ~HoldsValidV2(ret.before[k]))
                   => p.recaptchaV2Token = Absent /\ p.recaptchaV3Token = Absent

\* C14: when the selected profile's own V3 and V2 pops both yield nothing, the
\* request takes the oldest valid V3 token of the first other active profile,
\* in registry order, that has one; exactly that token leaves the donor's pool,
\* no valid token leaves any other profile, and the cookie and authorization
\* headers are those of the selected profile; when no other active profile has
\* a valid token the request is sent without a challenge token.
C14_Borrowing ==
    (/\ ChatSent
     /\ TokenCount(ret.before[SelectedBefore]) = 0
     /\ ~HoldsValidV2(ret.before[SelectedBefore]))
    => LET b == ret.before
           i == SelectedBefore
           donors == {k \in 1..Len(b) : k # i /\ Active(b[k]) /\ TokenCount(b[k]) > 0}
           d == CHOOSE k \in donors : \A j \in donors : k <= j
       IN  /\ Len(stores) = Len(b)
           /\ ret.headers = [cookie |-> b[i].cookies,
                             authorization |-> IF b[i].auth_token # ""
                                               THEN "Bearer " \o b[i].auth_token
                                               ELSE Absent]
           /\ ret.v2_token = None /\ ret.payload.recaptchaV2Token = Absent
           /\ IF donors = {}
              THEN /\ ret.v3_token = None
                   /\ ret.payload.recaptchaV3Token = Absent
                   /\ \A k \in 1..Len(b) : Valid(stores[k].v3_tokens) = Valid(b[k].v3_tokens)
              ELSE /\ \E e \in Valid(b[d].v3_tokens) :
                         /\ \A f \in Valid(b[d].v3_tokens) : e.ts <= f.ts
                         /\ ret.v3_token = e.token
                         /\ ret.payload.recaptchaV3Token = e.token
                         /\ Valid(stores[d].v3_tokens) = Valid(b[d].v3_tokens) \ {e}
                   /\ ret.source = b[d].profile_id
                   /\ \A k \in 1..Len(b) :
                         k # d => Valid(stores[k].v3_tokens) = Valid(b[k].v3_tokens)
           /\ \A k \in 1..Len(b) : k # i => stores[k].v2_token = b[k].v2_token

\* a request has borrowed the older of the two valid tokens of the first of two
\* profiles that could lend
C14_Witness ==
    /\ ChatSent
    /\ ret.source # None
    /\ ret.source # ret.selected
    /\ Cardinality({k \in 1..Len(ret.before) :
                       /\ ret.before[k].profile_id # ret.selected
                       /\ Active(ret.before[k])
                       /\ TokenCount(ret.before[k]) > 0}) = 2
    /\ \E k \in 1..Len(ret.before) :
          /\ ret.before[k].profile_id = ret.source
          /\ TokenCount(ret.before[k]) = 2

----------------------------------------------------------------------------
(* Claims about the order of the pool and the counters *)

SortedByTs(v3) == \A i, j \in 1..Len(v3) : i < j => v3[i].ts <= v3[j].ts

\* C22: in every reachable state the V3 sequence of every profile is sorted by
\* mint time ascending, and a successful pop_v3_token returns the entry of the
\* smallest mint time among those not expired at the pop: every entry the pop
\* leaves was minted no earlier, and the returned entry is not expired.
C22_SortedOldestFirst ==
    /\ \A i \in 1..Len(stores) : SortedByTs(stores[i].v3_tokens)
    /\ (ret.op = "pop_v3" /\ ret.token # None) =>
          /\ ret.at - ret.ts < TOKEN_EXPIRY_MS
          /\ \A k \in 1..Len(StoreOf(ret.profile).v3_tokens) :
                ret.ts <= StoreOf(ret.profile).v3_tokens[k].ts

\* a pop has returned the older of two valid entries, the younger is left
C22_Witness ==
    /\ ret.op = "pop_v3"
    /\ ret.token # None
    /\ StoreOf(ret.profile).v3_tokens # <<>>
    /\ StoreOf(ret.profile).v3_tokens[1].ts > ret.ts

Rejected(old, t) ==
    \/ t.token = ""
    \/ Len(t.token) < MinTokenLen
    \/ \E k \in 1..Len(old.v3_tokens) : old.v3_tokens[k].token = t.token
    \/ t.age_ms >= TOKEN_EXPIRY_MS

\* C23: a pushed V3 token is rejected, the V3 sequence and the received counter
\* staying as they were, whenever it is empty, shorter than the minimum length,
\* equal in value to a held token, or of age_ms >= TOKEN_EXPIRY_MS (the age
\* equal to it included); every other pushed token is inserted with
\* ts = now - age_ms and raises total_tokens_received by exactly one.
C23_PushRejection ==
    [][(ret'.op = "push" /\ Len(ret'.data.v3_tokens) = 1) =>
          LET t == ret'.data.v3_tokens[1]
              pid == ret'.profile
              old == IF pid \in Registered THEN StoreOf(pid) ELSE NewStore(pid)
              new == stores'[CHOOSE k \in 1..Len(stores') : stores'[k].profile_id = pid]
          IN  IF Rejected(old, t)
              THEN /\ new.v3_tokens = old.v3_tokens
                   /\ new.total_tokens_received = old.total_tokens_received
              ELSE /\ [token |-> t.token, ts |-> NowMs - t.age_ms]
                          \in Range(new.v3_tokens) \cup Range(ret'.evicted)
                   /\ new.total_tokens_received = old.total_tokens_received + 1]_vars

----------------------------------------------------------------------------
(* Claims about the buffered finish reason *)

\* the `ad:` events the buffered call has seen: the lines of that prefix whose
\* payload is an object
AdEvents == {i \in 1..Len(upstream.lines) :
                /\ upstream.lines[i].prefix = "ad:"
                /\ JsonLoads(upstream.lines[i].rest).ok
                /\ JsonLoads(upstream.lines[i].rest).type = "obj"}
LastAd == JsonLoads(upstream.lines[CHOOSE i \in AdEvents : \A j \in AdEvents : j <= i].rest)

\* C24: in buffered mode the finish_reason is that of the last `ad:` event
\* seen: with several `ad:` lines the response carries the finishReason of the
\* last of them, or the default "stop" when that last line carries none, never
\* a value left over from an earlier `ad:` line.
C24_LastAdFinishReason ==
    (br.state = "returned" /\ AdEvents # {}) =>
        br.result.finish_reason = IF LastAd.finishReason # "" THEN LastAd.finishReason
                                  ELSE "stop"

----------------------------------------------------------------------------
(* Claims about what a chat request consumes *)

RECURSIVE SumSeq(_)
SumSeq(s) == IF s = <<>> THEN 0 ELSE Head(s) + SumSeq(Tail(s))

\* C25: a chat request that fails (no active profile, model not found, empty
\* prompt) fails before any upstream call and consumes nothing: every
\* profile's V3 sequence, V2 slot, total_tokens_served and consecutive_empty
\* are as before it; and no request with one of these conditions is sent.
C25_FailedConsumesNothing ==
    ret.op = "chat" =>
        /\ ret.error # 0 =>
              /\ Len(stores) = Len(ret.before)
              /\ \A k \in 1..Len(stores) :
                    /\ stores[k].v3_tokens = ret.before[k].v3_tokens
                    /\ stores[k].v2_token = ret.before[k].v2_token
                    /\ stores[k].total_tokens_served = ret.before[k].total_tokens_served
                    /\ stores[k].consecutive_empty = ret.before[k].consecutive_empty
        /\ ret.error = 0 =>
              /\ \E k \in 1..Len(ret.before) : Active(ret.before[k])
              /\ ret.model_id # None
              /\ ret.body.messages = "text"

\* a request of empty prompt has failed while a profile held a valid token
C25_Witness ==
    /\ ret.op = "chat"
    /\ ret.error = 400
    /\ ret.body.messages = "blank"
    /\ \E k \in 1..Len(stores) : Active(stores[k]) /\ TokenCount(stores[k]) > 0

\* C27: for every profile, in every reachable state, total_tokens_served <=
\* total_tokens_received: the V3 tokens pops have handed out, to own requests
\* and to borrowers together, are never more than those pushes have accepted.
C27_ServedAtMostReceived ==
    \A k \in 1..Len(stores) :
        stores[k].total_tokens_served <= stores[k].total_tokens_received

\* a borrower has taken the last of the two tokens a profile ever received
C27_Witness ==
    /\ ChatSent
    /\ ret.source # None
    /\ ret.source # ret.selected
    /\ StoreOf(ret.source).total_tokens_served = 2
    /\ StoreOf(ret.source).total_tokens_received = 2

\* C28: one chat request removes at most one challenge token in total from all
\* pools: never a V3 and a V2 token together, never tokens of more than one
\* profile; what the pools have served and the V2 slots have given up during
\* the request is one token when the request carries one, and none otherwise.
C28_AtMostOneToken ==
    ChatSent =>
        LET ServedV3(k) == stores[k].total_tokens_served
                               - ret.before[k].total_tokens_served
            TakenV2(k) == IF HoldsValidV2(ret.before[k]) /\ stores[k].v2_token = <<>>
                          THEN 1 ELSE 0
            Taken(k) == ServedV3(k) + TakenV2(k)
            LostValid(k) == Cardinality(Valid(ret.before[k].v3_tokens)
                                          \ Valid(stores[k].v3_tokens))
        IN  /\ ~(ret.v3_token # None /\ ret.v2_token # None)
            /\ SumSeq([k \in 1..Len(stores) |-> Taken(k)])
                   = IF ret.v3_token # None \/ ret.v2_token # None THEN 1 ELSE 0
            /\ SumSeq([k \in 1..Len(stores) |-> LostValid(k)])
                   = IF ret.v3_token # None THEN 1 ELSE 0
            /\ \A k \in 1..Len(stores) :
                  Taken(k) > 0 => stores[k].profile_id = ret.source

\* a request has taken the V3 token of a profile and left its valid V2 token
C28_Witness ==
    /\ ChatSent
    /\ ret.v3_token # None
    /\ ret.source = ret.selected
    /\ HoldsValidV2(ret.before[SelectedBefore])
    /\ HoldsValidV2(StoreOf(ret.selected))

\* C30: selection and the request's own pop are not separable: when
\* select_best_profile returned the profile through the round-robin branch
\* (it had a valid token at the selection), the request's pop_v3_token on that
\* profile yields a token, whatever requests, pushes and sweeps run around the
\* request, and the request does not borrow.
C30_SelectionThenPop ==
    (ChatSent /\ TokenCount(ret.before[SelectedBefore]) > 0) =>
        /\ ret.v3_token # None
        /\ ret.v2_token = None
        /\ ret.source = ret.selected
        /\ \E e \in Valid(ret.before[SelectedBefore].v3_tokens) :
              e.token = ret.v3_token /\ e.ts = ret.ts

\* a request has popped from the profile it selected while another profile
\* could have lent a token, after an earlier request
C30_Witness ==
    /\ ChatSent
    /\ TokenCount(ret.before[SelectedBefore]) > 0
    /\ ret.source = ret.selected
    /\ handed # {[donor |-> ret.source, kind |-> "v3", token |-> ret.v3_token, ts |-> ret.ts]}
    /\ \E k \in 1..Len(ret.before) :
          /\ ret.before[k].profile_id # ret.selected
          /\ Active(ret.before[k])
          /\ TokenCount(ret.before[k]) > 0

----------------------------------------------------------------------------
(* Claims about the cleanup sweep *)

----------------------------------------------------------------------------
(* Claims about the model id sent upstream *)

\* C29: whenever the catalog of the profile selected for a request contains
\* the resolved model name, the model id of the outbound payload is the id the
\* selected profile's own catalog maps that name to, also when several active
\* profiles map the name to different ids.
C29_ModelIdOfSelected ==
    ChatSent =>
        LET s == ret.before[SelectedBefore]
        IN  /\ DictHas(s.text_models, ret.model)
                  => ret.payload.modelAId = DictGet(s.text_models, ret.model)
            /\ (~DictHas(s.text_models, ret.model) /\ DictHas(s.image_models, ret.model))
                  => ret.payload.modelAId = DictGet(s.image_models, ret.model)

====
